---- MODULE Spec2Model ----
(***************************************************************************)
(* Model of the skipper arbitrage core:                                    *)
(*   - CosmWasmQuerier.query_node_for_new_mempool_txs, the mempool watcher *)
(*     with its already_seen dedup cache, and                              *)
(*     CosmWasmQuerier.update_account_balance                              *)
(*     (src/querier/queriers/cosmwasm.py)                                  *)
(*   - Route.order_pools, calculate_and_set_profit,                        *)
(*     calculate_and_set_optimal_amount_in, calculate_and_set_amount_in    *)
(*     (src/route.py)                                                      *)
(***************************************************************************)
EXTENDS Integers, Sequences, FiniteSets, TLC

(***************************************************************************)
(* Bounds of the model and program constants.                              *)
(***************************************************************************)
\* cosmwasm.py:46  `if len(self.already_seen) > 200`
CacheLimit == 200
\* transaction identifiers are 1..MaxTxId
MaxTxId == 203
\* longest pending list one response carries
MaxTxs == 2
\* most pools in a route of the sizing model (the bot uses 3)
MaxPools == 3
\* pool reserves are 1..MaxReserve
MaxReserve == 8
\* optimal_amount_in a Route is constructed with: -1..MaxAmount
MaxAmount == 2
\* account balances are 0..MaxBalance, gas fees 0..MaxGas
MaxBalance == 2
MaxGas == 1
\* LedgerClient objects are 1..MaxClients, numbered as they are constructed
MaxClients == 4
\* reserves of the two-pool cycles of the optimal sizing model
MaxCycleReserve == 6

(***************************************************************************)
(* Generic helpers.                                                        *)
(***************************************************************************)
Range(s) == {s[i] : i \in 1..Len(s)}

SeqsUpTo(S, n) == UNION {[1..k -> S] : k \in 0..n}

NoDuplicates(s) == \A i, j \in 1..Len(s) : i # j => s[i] # s[j]

\* the elements of s that are in S, each at its first occurrence, in order
RECURSIVE FirstOccurrences(_, _)
FirstOccurrences(s, S) ==
    IF s = <<>> THEN <<>>
    ELSE IF Head(s) \in S
         THEN <<Head(s)>> \o FirstOccurrences(Tail(s), S \ {Head(s)})
         ELSE FirstOccurrences(Tail(s), S)

VARIABLES
    already_seen,   \* self.already_seen: the dedup cache (a set of tx ids)
    pc,             \* position inside query_node_for_new_mempool_txs
    response,       \* local `response` of the current attempt
    mempool,        \* local `mempool` of the current attempt
    tx_index,       \* position of the for loop in mempool['txs']
    new_txs,        \* local `new_txs`; the return value once pc = "returned"
    error,          \* exception that left the method, "none" if there is none
    cleared,        \* line 47 ran in the current invocation of the method
    pools,              \* Route.pools: the sequence of Pool objects
    profit,             \* Route.profit
    optimal_amount_in,  \* Route.optimal_amount_in
    amount_in,          \* Route.amount_in
    call,               \* the last call made on the Route, with its arguments
    client,             \* the LedgerClient the caller holds (its identity)
    clients_made,       \* how many LedgerClient objects were constructed
    balance_call        \* the last update_account_balance call and its outcome

watcher_vars ==
    <<already_seen, pc, response, mempool, tx_index, new_txs, error, cleared>>

route_vars == <<pools, profit, optimal_amount_in, amount_in, call>>

ledger_vars == <<client, clients_made, balance_call>>

vars == <<watcher_vars, route_vars, ledger_vars>>

(***************************************************************************)
(* The transport: what httpx.get and response.json() can produce.          *)
(***************************************************************************)
\* httpx exceptions that _query_unconfirmed_txs catches (lines 84-95)
CaughtTransportErrors ==
    {"ConnectTimeout", "ReadTimeout", "ConnectError", "RemoteProtocolError"}

\* httpx exceptions of the same families that it does not catch
UncaughtTransportErrors == {"ReadError"}

TxIds == 1..MaxTxId

\* identifiers the transport reports in this model: two old ones and the
\* ones around the cache limit
PendingIds == {1, CacheLimit} \cup ((CacheLimit + 1)..MaxTxId)

NoValue == [kind |-> "none"]

\* bodies of an HTTP response:
\*   not_json         response.json() raises JSONDecodeError
\*   no_result        JSON object without a 'result' key (a JSON-RPC error)
\*   result_null      {"result": null}
\*   result_no_txs    {"result": {...}} without 'txs'
\*   result_scalar    {"result": 0}
\*   result_txs       {"result": {"txs": [...]}}
Bodies ==
    {[kind |-> k, txs |-> <<>>] :
        k \in {"not_json", "no_result", "result_null", "result_no_txs",
               "result_scalar"}}
    \cup {[kind |-> "result_txs", txs |-> t] : t \in SeqsUpTo(PendingIds, MaxTxs)}

\* states of the cache the watcher can be in when the model starts: empty
\* (after construction) or filled by earlier polls up to the limit
InitialCaches == {{}} \cup {1..n : n \in (CacheLimit - 1)..CacheLimit}

\* the watcher before query_node_for_new_mempool_txs is called
WatcherIdle(cache) ==
    /\ already_seen = cache
    /\ pc = "idle"
    /\ response = NoValue
    /\ mempool = NoValue
    /\ tx_index = 0
    /\ new_txs = <<>>
    /\ error = "none"
    /\ cleared = FALSE

\* Route(): the dataclass defaults, route.py:14-17
DefaultRoute ==
    /\ pools = <<>>
    /\ profit = 0
    /\ optimal_amount_in = 0
    /\ amount_in = 0
    /\ call = [op |-> "none"]

\* the caller before it queries its balance: it holds the first
\* LedgerClient that was constructed
LedgerIdle ==
    /\ client = 1
    /\ clients_made = 1
    /\ balance_call = [op |-> "none"]

WatcherInit ==
    /\ \E cache \in InitialCaches : WatcherIdle(cache)
    /\ DefaultRoute
    /\ LedgerIdle

(***************************************************************************)
(* query_node_for_new_mempool_txs, cosmwasm.py:37-67                       *)
(***************************************************************************)
\* the caller invokes the method (again): fresh locals
Call ==
    /\ pc \in {"idle", "returned"}
    /\ pc' = "sleep"
    /\ response' = NoValue
    /\ mempool' = NoValue
    /\ tx_index' = 0
    /\ new_txs' = <<>>
    /\ cleared' = FALSE
    /\ UNCHANGED <<already_seen, error>>
    /\ UNCHANGED <<route_vars, ledger_vars>>

(***************************************************************************)
(* Mutants: the watcher with one plausible slip each.                      *)
(***************************************************************************)
\* the threshold test written `>=` instead of `>`
ClearIfOverThreshold_AtLimit(seen) ==
    IF Cardinality(seen) >= CacheLimit THEN {} ELSE seen

\* the threshold test dropped
ClearIfOverThreshold_Never(seen) == seen

\* lines 44-47: time.sleep(1); clear the cache when it holds more than 200
ClearIfOverThreshold(seen) ==
    IF Cardinality(seen) > CacheLimit THEN {} ELSE seen

SleepAndBound ==
    /\ pc = "sleep"
    /\ already_seen' = ClearIfOverThreshold(already_seen)
    /\ cleared' = (cleared \/ already_seen' # already_seen)
    /\ pc' = "query"
    /\ UNCHANGED <<response, mempool, tx_index, new_txs, error>>
    /\ UNCHANGED <<route_vars, ledger_vars>>

\* lines 49-52 with _query_unconfirmed_txs, lines 78-95
QueryUnconfirmedTxs ==
    /\ pc = "query"
    /\ \/ \E e \in CaughtTransportErrors :
            \* logged, None returned, `continue`
            /\ response' = [kind |-> "None", cause |-> e]
            /\ pc' = "sleep"
            /\ UNCHANGED error
       \/ \E e \in UncaughtTransportErrors :
            \* no except clause matches: the exception leaves the method
            /\ response' = [kind |-> "raised", cause |-> e]
            /\ pc' = "crashed"
            /\ error' = e
       \/ \E b \in Bodies :
            /\ response' = [kind |-> "response", body |-> b]
            /\ pc' = "parse"
            /\ UNCHANGED error
    /\ UNCHANGED <<already_seen, mempool, tx_index, new_txs, cleared>>
    /\ UNCHANGED <<route_vars, ledger_vars>>

\* _get_mempool_from_response, lines 69-76: response.json()['result']
get_mempool_from_response(b) ==
    CASE b.kind = "not_json"      -> [kind |-> "None"]
      [] b.kind = "no_result"     -> [kind |-> "raised", cause |-> "KeyError"]
      [] b.kind = "result_null"   -> [kind |-> "None"]
      [] b.kind = "result_no_txs" -> [kind |-> "dict"]
      [] b.kind = "result_scalar" -> [kind |-> "scalar"]
      [] b.kind = "result_txs"    -> [kind |-> "dict", txs |-> b.txs]

\* lines 54-59
ParseResponse ==
    /\ pc = "parse"
    /\ LET m == get_mempool_from_response(response.body) IN
       /\ mempool' = m
       /\ CASE m.kind = "raised" ->
                 /\ pc' = "crashed" /\ error' = m.cause
                 /\ UNCHANGED <<tx_index, new_txs>>
            [] m.kind = "scalar" ->
                 \* `'txs' not in mempool` on a number raises TypeError
                 /\ pc' = "crashed" /\ error' = "TypeError"
                 /\ UNCHANGED <<tx_index, new_txs>>
            [] m.kind = "None" ->
                 /\ pc' = "sleep" /\ UNCHANGED <<error, tx_index, new_txs>>
            [] m.kind = "dict" ->
                 IF "txs" \notin DOMAIN m \/ m.txs = <<>>
                 THEN /\ pc' = "sleep" /\ UNCHANGED <<error, tx_index, new_txs>>
                 ELSE /\ pc' = "for"
                      /\ tx_index' = 1
                      /\ new_txs' = <<>>
                      /\ UNCHANGED error
    /\ UNCHANGED <<already_seen, response, cleared>>
    /\ UNCHANGED <<route_vars, ledger_vars>>

\* mutant of the loop body: the `if tx in self.already_seen: continue`
\* test is missing
ObserveTx_NoSeenTest ==
    /\ pc = "for"
    /\ tx_index <= Len(mempool.txs)
    /\ LET tx == mempool.txs[tx_index] IN
       /\ already_seen' = already_seen \cup {tx}
       /\ new_txs' = Append(new_txs, tx)
    /\ tx_index' = tx_index + 1
    /\ UNCHANGED <<pc, response, mempool, error, cleared>>
    /\ UNCHANGED <<route_vars, ledger_vars>>

\* lines 60-64: one iteration of `for tx in mempool['txs']`
ObserveTx ==
    /\ pc = "for"
    /\ tx_index <= Len(mempool.txs)
    /\ LET tx == mempool.txs[tx_index] IN
       IF tx \in already_seen
       THEN UNCHANGED <<already_seen, new_txs>>
       ELSE /\ already_seen' = already_seen \cup {tx}
            /\ new_txs' = Append(new_txs, tx)
    /\ tx_index' = tx_index + 1
    /\ UNCHANGED <<pc, response, mempool, error, cleared>>
    /\ UNCHANGED <<route_vars, ledger_vars>>

\* mutant of the loop exit: `if new_txs:` is missing
ReturnOrRetry_AlwaysReturn ==
    /\ pc = "for"
    /\ tx_index > Len(mempool.txs)
    /\ pc' = "returned"
    /\ UNCHANGED <<already_seen, response, mempool, tx_index, new_txs, error,
                   cleared>>
    /\ UNCHANGED <<route_vars, ledger_vars>>

\* lines 66-67: return the batch if it is not empty, else poll again
ReturnOrRetry ==
    /\ pc = "for"
    /\ tx_index > Len(mempool.txs)
    /\ pc' = IF new_txs # <<>> THEN "returned" ELSE "sleep"
    /\ UNCHANGED <<already_seen, response, mempool, tx_index, new_txs, error,
                   cleared>>
    /\ UNCHANGED <<route_vars, ledger_vars>>

WatcherNext ==
    \/ Call
    \/ SleepAndBound
    \/ QueryUnconfirmedTxs
    \/ ParseResponse
    \/ ObserveTx
    \/ ReturnOrRetry

Spec == WatcherInit /\ [][WatcherNext]_vars

\* The method runs in one thread that nothing suspends: once it is called,
\* the step the loop is at is taken (time.sleep(1) and httpx.get with its
\* timeout both end). Nothing obliges the caller to call again.
WatcherFairness ==
    /\ WF_vars(SleepAndBound)
    /\ WF_vars(QueryUnconfirmedTxs)
    /\ WF_vars(ParseResponse)
    /\ WF_vars(ObserveTx)
    /\ WF_vars(ReturnOrRetry)

FairSpec == Spec /\ WatcherFairness

(***************************************************************************)
(* Pools and routes, route.py:12-17. A Pool is the record of the fields    *)
(* route.py reads and writes.                                              *)
(***************************************************************************)
Pool(address, token1, token2, rin, rout, lp, protocol, from_input) ==
    [contract_address |-> address,
     token1_denom     |-> token1,
     token2_denom     |-> token2,
     input_reserves   |-> rin,
     output_reserves  |-> rout,
     lp_fee           |-> lp,
     protocol_fee     |-> protocol,
     fee_from_input   |-> from_input,
     amount_in        |-> 0,
     amount_out       |-> 0]

\* Python's list.index: the first position holding an equal element, 0-based;
\* -1 stands for the ValueError of a missing element
index(ps, x) ==
    IF \E i \in 1..Len(ps) : ps[i] = x
    THEN (CHOOSE i \in 1..Len(ps) :
              ps[i] = x /\ \A j \in 1..(i - 1) : ps[j] # x) - 1
    ELSE -1

\* the route reversed with every pool turned round as well: its input and
\* output reserves exchanged
reverse_TurningPools(ps) ==
    [i \in 1..Len(ps) |->
        [ps[Len(ps) + 1 - i] EXCEPT
            !.input_reserves = ps[Len(ps) + 1 - i].output_reserves,
            !.output_reserves = ps[Len(ps) + 1 - i].input_reserves]]

\* the route re-ordered by moving its first pool to the end
reverse_Rotated(ps) == [i \in 1..Len(ps) |-> ps[(i % Len(ps)) + 1]]

\* Python's list.reverse
reverse(ps) == [i \in 1..Len(ps) |-> ps[Len(ps) + 1 - i]]

(***************************************************************************)
(* Route.order_pools, route.py:19-73                                       *)
(***************************************************************************)
\* mutant of _order_first_pool: the test of _order_last_pool copied
order_first_pool_AsLast(ps, input_denom, arb_denom) ==
    IF input_denom = arb_denom THEN reverse(ps) ELSE ps

\* _order_first_pool, lines 46-51
order_first_pool(ps, input_denom, arb_denom) ==
    IF input_denom # arb_denom THEN reverse(ps) ELSE ps

\* mutant of _order_second_pool: the test of line 60 written `==`, which
\* compares the swap with the first pool's arb side
order_second_pool_ArbSide(ps, input_denom, arb_denom) ==
    LET first_pool == ps[1]
        output_denom == IF first_pool.token1_denom = arb_denom
                        THEN first_pool.token1_denom
                        ELSE first_pool.token2_denom
    IN IF input_denom # output_denom THEN reverse(ps) ELSE ps

\* _order_second_pool, lines 53-66
order_second_pool(ps, input_denom, arb_denom) ==
    LET first_pool == ps[1]
        output_denom == IF first_pool.token1_denom # arb_denom
                        THEN first_pool.token1_denom
                        ELSE first_pool.token2_denom
    IN IF input_denom # output_denom THEN reverse(ps) ELSE ps

\* mutant of _order_last_pool: the test of _order_first_pool copied
order_last_pool_AsFirst(ps, input_denom, arb_denom) ==
    IF input_denom # arb_denom THEN reverse(ps) ELSE ps

\* _order_last_pool, lines 68-73
order_last_pool(ps, input_denom, arb_denom) ==
    IF input_denom = arb_denom THEN reverse(ps) ELSE ps

\* lines 26-44: the pools as order_pools leaves them; contracts maps a
\* contract address to its Pool
OrderedPools(ps, contracts, swap, arb_denom) ==
    LET swapped_self_index == index(ps, contracts[swap.contract_address])
        input_denom == swap.output_denom
    IN CASE swapped_self_index = 0 ->
                order_first_pool(ps, input_denom, arb_denom)
         [] swapped_self_index = 1 ->
                order_second_pool(ps, input_denom, arb_denom)
         [] swapped_self_index = 2 ->
                order_last_pool(ps, input_denom, arb_denom)
         [] OTHER -> ps

(***************************************************************************)
(* The registry the orderer is run against: one pool per ordered pair of   *)
(* distinct denoms, keyed by its address.                                  *)
(***************************************************************************)
Denoms == {"ujuno", "uatom", "uosmo", "uusdc"}

\* the base asset of the bot, the arb_denom argument of order_pools
ArbDenom == "ujuno"

Addresses == {<<a, b>> : a, b \in Denoms} \ {<<a, a>> : a \in Denoms}

\* input and output reserves differ, so that exchanging them shows
RegistryPool(address) ==
    Pool(address, address[1], address[2], 1, 2, 0, 0, FALSE)

Swaps == [contract_address : Addresses, output_denom : Denoms]

\* the contracts dict of the caller: address -> the Pool object, which is
\* the object in the route when the route holds that pool
Contracts(ps) ==
    [a \in Addresses |->
        IF \E i \in 1..Len(ps) : ps[i].contract_address = a
        THEN ps[CHOOSE i \in 1..Len(ps) : ps[i].contract_address = a]
        ELSE RegistryPool(a)]

\* sequences of n distinct elements of S
DistinctSeqs(S, n) == {q \in [1..n -> S] : \A i, j \in 1..n : i # j => q[i] # q[j]}

OrderInit ==
    /\ WatcherIdle({})
    /\ LedgerIdle
    /\ \E q \in DistinctSeqs(Addresses, 3) :
          pools = [i \in 1..3 |-> RegistryPool(q[i])]
    /\ profit = 0
    /\ optimal_amount_in = 0
    /\ amount_in = 0
    /\ call = [op |-> "none"]

\* the swaps order_pools is called with: on any pool of the route, and on
\* one pool of the registry that is not in the route
SwapsOn(ps) ==
    LET members == {ps[i].contract_address : i \in 1..Len(ps)}
        others  == Addresses \ members
        targets == members \cup (IF others = {} THEN {}
                                 ELSE {CHOOSE a \in others : TRUE})
    IN {sw \in Swaps : sw.contract_address \in targets}

\* what a call of order_pools records of the call made just before it:
\* whether that was an order_pools that reversed the route, and whether it
\* was an order_pools with this same swap
PreviousCall(swap) ==
    IF call.op = "order_pools"
    THEN [reversed  |-> call.before # pools,
          same_swap |-> call.swap = swap]
    ELSE [reversed |-> FALSE, same_swap |-> FALSE]

\* route.order_pools(contracts, swap, arb_denom); a swap on a pool that is
\* not in the route makes list.index raise ValueError
order_pools ==
    \E swap \in SwapsOn(pools) :
        LET contracts == Contracts(pools)
            missing == index(pools, contracts[swap.contract_address]) = -1
        IN
        /\ pools' = IF missing THEN pools
                    ELSE OrderedPools(pools, contracts, swap, ArbDenom)
        /\ call' = [op        |-> "order_pools",
                    swap      |-> swap,
                    arb_denom |-> ArbDenom,
                    raised    |-> IF missing THEN "ValueError" ELSE "none",
                    before    |-> pools,
                    previous  |-> PreviousCall(swap)]
        /\ UNCHANGED <<profit, optimal_amount_in, amount_in>>
        /\ UNCHANGED <<watcher_vars, ledger_vars>>

OrderNext == order_pools

SpecOrder == OrderInit /\ [][OrderNext]_vars

(***************************************************************************)
(* Arithmetic of the sizing formulas. Fee rates and the intermediate       *)
(* values a_prime_in, a_prime_out are fractions <<numerator, denominator>> *)
(* in lowest terms with a positive denominator.                            *)
(***************************************************************************)
Abs(x) == IF x < 0 THEN -x ELSE x

RECURSIVE GCD(_, _)
GCD(a, b) == IF b = 0 THEN a ELSE GCD(b, a % b)

Frac(n, d) ==
    LET g == GCD(Abs(n), Abs(d))
        sgn == IF d < 0 THEN -1 ELSE 1
    IN <<sgn * (n \div g), sgn * (d \div g)>>

FInt(k) == <<k, 1>>

FAdd(x, y) ==
    LET g == GCD(x[2], y[2])
    IN Frac(x[1] * (y[2] \div g) + y[1] * (x[2] \div g), (x[2] \div g) * y[2])

FNeg(x) == <<-x[1], x[2]>>

FSub(x, y) == FAdd(x, FNeg(y))

FMul(x, y) ==
    LET a == Frac(x[1], y[2])
        b == Frac(y[1], x[2])
    IN Frac(a[1] * b[1], a[2] * b[2])

FDiv(x, y) == FMul(x, Frac(y[2], y[1]))

FLess(x, y) == FSub(x, y)[1] < 0

\* math.floor of a fraction
FFloor(x) == x[1] \div x[2]

(***************************************************************************)
(* calculate_swap of src/swap.py: constant product, the fee rate           *)
(* lp_fee + protocol_fee taken from the input before the division or from  *)
(* the output after it, the amount out floored to an integer. The result   *)
(* is <<amount_out, new_reserves_in, new_reserves_out>>, or                *)
(* "ZeroDivisionError" when the divisor is 0.                              *)
(***************************************************************************)
calculate_swap(reserves_in, reserves_out, swap_amount_in, lp_fee, protocol_fee, fee_from_input) ==
    LET keep == FSub(FInt(1), FAdd(lp_fee, protocol_fee))
        after_fee == FMul(FInt(swap_amount_in), keep)
        divisor == IF fee_from_input
                   THEN FAdd(FInt(reserves_in), after_fee)
                   ELSE FInt(reserves_in + swap_amount_in)
        out == FFloor(FDiv(FMul(FInt(reserves_out), after_fee), divisor))
    IN IF divisor[1] = 0 THEN "ZeroDivisionError"
       ELSE <<out, reserves_in + swap_amount_in, reserves_out - out>>

(***************************************************************************)
(* Route.calculate_and_set_profit, route.py:75-95                          *)
(***************************************************************************)
\* the loop with every pool fed the route's amount_in instead of the amount
\* the pool before it gave out
RECURSIVE ProfitLoop_Unchained(_, _, _)
ProfitLoop_Unchained(ps, i, route_amount_in) ==
    IF i > Len(ps) THEN [pools |-> ps, raised |-> "none"]
    ELSE LET swapped == calculate_swap(ps[i].input_reserves,
                                       ps[i].output_reserves,
                                       route_amount_in,
                                       ps[i].lp_fee,
                                       ps[i].protocol_fee,
                                       ps[i].fee_from_input)
         IN IF swapped = "ZeroDivisionError"
            THEN [pools  |-> [ps EXCEPT ![i].amount_in = route_amount_in],
                  raised |-> swapped]
            ELSE ProfitLoop_Unchained(
                     [ps EXCEPT ![i].amount_in = route_amount_in,
                                ![i].amount_out = swapped[1]],
                     i + 1, route_amount_in)

\* lines 79-92: the loop from pool i on; the result is the pools and the
\* exception that ended the loop, if any
RECURSIVE ProfitLoop(_, _, _)
ProfitLoop(ps, i, route_amount_in) ==
    IF i > Len(ps) THEN [pools |-> ps, raised |-> "none"]
    ELSE LET pool_amount_in == IF i = 1 THEN route_amount_in
                               ELSE ps[i - 1].amount_out
             swapped == calculate_swap(ps[i].input_reserves,
                                       ps[i].output_reserves,
                                       pool_amount_in,
                                       ps[i].lp_fee,
                                       ps[i].protocol_fee,
                                       ps[i].fee_from_input)
         IN IF swapped = "ZeroDivisionError"
            THEN [pools  |-> [ps EXCEPT ![i].amount_in = pool_amount_in],
                  raised |-> swapped]
            ELSE ProfitLoop([ps EXCEPT ![i].amount_in = pool_amount_in,
                                       ![i].amount_out = swapped[1]],
                            i + 1, route_amount_in)

calculate_and_set_profit ==
    /\ Len(pools) >= 1
    /\ LET done == ProfitLoop(pools, 1, amount_in) IN
       /\ pools' = done.pools
       /\ IF done.raised = "none"
          THEN /\ profit' = done.pools[Len(pools)].amount_out
                                - done.pools[1].amount_in
               /\ call' = [op |-> "calculate_and_set_profit",
                           raised |-> "none", returned |-> profit']
          ELSE /\ profit' = profit
               /\ call' = [op |-> "calculate_and_set_profit",
                           raised |-> done.raised]
    /\ UNCHANGED <<optimal_amount_in, amount_in>>
    /\ UNCHANGED <<watcher_vars, ledger_vars>>

(***************************************************************************)
(* Route.calculate_and_set_optimal_amount_in, route.py:97-128              *)
(***************************************************************************)
\* lines 109-114
input_fee(p) ==
    IF p.fee_from_input THEN FSub(FInt(1), FAdd(p.lp_fee, p.protocol_fee))
    ELSE FInt(1)

output_fee(p) ==
    IF p.fee_from_input THEN FInt(1)
    ELSE FSub(FInt(1), FAdd(p.lp_fee, p.protocol_fee))

\* lines 116-124: <<a_prime_in, a_prime_out>> after the pools up to pool i
RECURSIVE a_prime(_, _)
a_prime(ps, i) ==
    IF i = 1
    THEN <<FInt(ps[1].input_reserves), FInt(ps[1].output_reserves)>>
    ELSE LET prev == a_prime(ps, i - 1)
             a_prime_in == prev[1]
             a_prime_out == prev[2]
             in_res == FInt(ps[i].input_reserves)
             out_res == FInt(ps[i].output_reserves)
             fees == FMul(input_fee(ps[i]), output_fee(ps[i]))
             divisor == FAdd(in_res, FMul(fees, a_prime_out))
         IN <<FDiv(FMul(a_prime_in, in_res), divisor),
              FDiv(FMul(FMul(fees, out_res), a_prime_out), divisor)>>

\* lines 126-128: is k <= (sqrt(radicand) - a_prime_in) / f0 ?
\* where radicand is f0 * g0 * a_prime_out * a_prime_in
AtMostOptimal(k, a_prime_in, radicand, f0) ==
    LET root == FAdd(FMul(FInt(k), f0), a_prime_in)
    IN root[1] < 0 \/ ~FLess(radicand, FMul(root, root))

\* is k = (sqrt(radicand) - a_prime_in) / f0 ?
IsOptimal(k, a_prime_in, radicand, f0) ==
    LET root == FAdd(FMul(FInt(k), f0), a_prime_in)
    IN root[1] >= 0 /\ FMul(root, root) = radicand

\* the floor of the exact value of (sqrt(radicand) - a_prime_in) / f0
ExactFloor(a_prime_in, radicand, f0) ==
    LET lowest == FFloor(FNeg(FDiv(a_prime_in, f0))) - 1
        highest == FFloor(FDiv(FAdd(radicand, FInt(1)), f0)) + 1
    IN CHOOSE k \in lowest..highest :
          /\ AtMostOptimal(k, a_prime_in, radicand, f0)
          /\ ~AtMostOptimal(k + 1, a_prime_in, radicand, f0)

\* The values math.floor can return. Python evaluates the formula in IEEE
\* doubles: the quotients of lines 123-124 are rounded, so where the exact
\* value is an integer k the computed one is k or just below k, and the
\* floor is k or k - 1 (pools (1,1), (5,1), (1,5) without fees give -1 for
\* an exact 0). Everywhere else the rounding is far too small to move the
\* floor, for reserves whose products stay below 2^53.
RoundedFloors(a_prime_in, radicand, f0) ==
    LET k == ExactFloor(a_prime_in, radicand, f0)
    IN IF IsOptimal(k, a_prime_in, radicand, f0) THEN {k - 1, k} ELSE {k}

\* the formula of lines 126-128 without "- a_prime_in"
OptimalAmounts_NoSubtraction(ps) ==
    LET a == a_prime(ps, Len(ps))
        f0 == input_fee(ps[1])
        g0 == output_fee(ps[1])
    IN RoundedFloors(FInt(0), FMul(FMul(f0, g0), FMul(a[2], a[1])), f0)

\* the formula with every pool's input and output reserves taken for each
\* other
OptimalAmounts_Reversed(ps) ==
    LET qs == [i \in 1..Len(ps) |->
                  [ps[i] EXCEPT !.input_reserves = ps[i].output_reserves,
                                !.output_reserves = ps[i].input_reserves]]
        a == a_prime(qs, Len(qs))
        f0 == input_fee(qs[1])
        g0 == output_fee(qs[1])
    IN RoundedFloors(a[1], FMul(FMul(f0, g0), FMul(a[2], a[1])), f0)

OptimalAmounts(ps) ==
    LET a == a_prime(ps, Len(ps))
        f0 == input_fee(ps[1])
        g0 == output_fee(ps[1])
    IN RoundedFloors(a[1], FMul(FMul(f0, g0), FMul(a[2], a[1])), f0)

calculate_and_set_optimal_amount_in ==
    /\ Len(pools) >= 1
    /\ \E v \in OptimalAmounts(pools) : optimal_amount_in' = v
    /\ call' = [op |-> "calculate_and_set_optimal_amount_in"]
    /\ UNCHANGED <<pools, profit, amount_in>>
    /\ UNCHANGED <<watcher_vars, ledger_vars>>

(***************************************************************************)
(* Route.calculate_and_set_amount_in, route.py:130-139                     *)
(***************************************************************************)
\* the policy with "no trade" written as 0 instead of "pass"
AmountIn_ZeroWhenNotPositive(optimal, current, account_balance, gas_fee) ==
    IF optimal <= 0 THEN 0
    ELSE IF optimal > account_balance - gas_fee
         THEN account_balance - gas_fee
         ELSE optimal

\* the policy without the elif of lines 136-137
AmountIn_Unclamped(optimal, current, account_balance, gas_fee) ==
    IF optimal <= 0 THEN current ELSE optimal

\* lines 134-139: the value amount_in has after the call
AmountIn(optimal, current, account_balance, gas_fee) ==
    IF optimal <= 0 THEN current
    ELSE IF optimal > account_balance - gas_fee
         THEN account_balance - gas_fee
         ELSE optimal

calculate_and_set_amount_in ==
    \E account_balance \in 0..MaxBalance, gas_fee \in 0..MaxGas :
        /\ amount_in' = AmountIn(optimal_amount_in, amount_in,
                                 account_balance, gas_fee)
        /\ call' = [op |-> "calculate_and_set_amount_in",
                    account_balance |-> account_balance,
                    gas_fee |-> gas_fee]
        /\ UNCHANGED <<pools, profit, optimal_amount_in>>
        /\ UNCHANGED <<watcher_vars, ledger_vars>>

(***************************************************************************)
(* Routes with reserves and fees, and the three models that run the        *)
(* sizing methods on them.                                                 *)
(***************************************************************************)
\* <<lp_fee, protocol_fee, fee_from_input>>
NoFees == <<FInt(0), FInt(0), TRUE>>

\* a fee taken from the output, and fees taken from the input
FeeConfigs ==
    {<<Frac(1, 4), FInt(0), FALSE>>,
     <<Frac(1, 4), Frac(1, 4), TRUE>>}

NumericPool(i, rin, rout, cfg) ==
    Pool(i, "", "", rin, rout, cfg[1], cfg[2], cfg[3])

\* the routes of n pools, n in lengths, with reserves in amounts and fee
\* configurations in configs
Routes(lengths, amounts, configs) ==
    UNION {
        {[i \in 1..n |-> NumericPool(i, rin[i], rout[i], cfg[i])] :
            rin \in [1..n -> amounts], rout \in [1..n -> amounts],
            cfg \in [1..n -> configs]} :
        n \in lengths}

\* reserves of the balance-constrained sizing model: a low and a high one,
\* which give negative, zero and positive optimal amounts
SizerReserves == {2, MaxCycleReserve}

\* the reserves of the first pool are refreshed from chain state
update_reserves ==
    /\ \E rin, rout \in SizerReserves :
          pools' = [pools EXCEPT ![1].input_reserves = rin,
                                 ![1].output_reserves = rout]
    /\ call' = [op |-> "update_reserves"]
    /\ UNCHANGED <<profit, optimal_amount_in, amount_in>>
    /\ UNCHANGED <<watcher_vars, ledger_vars>>

\* Balance-constrained sizing: a two-pool Route constructed with any
\* optimal_amount_in, its second pool holding the low reserve against the
\* high one; all three methods run in any order while the reserves of the
\* first pool are refreshed between the calls.
SizerInit ==
    /\ WatcherIdle({})
    /\ LedgerIdle
    /\ pools \in {r \in Routes({2}, SizerReserves, {NoFees}) :
                    /\ r[2].input_reserves < r[2].output_reserves}
    /\ profit = 0
    /\ optimal_amount_in \in -1..MaxAmount
    /\ amount_in = 0
    /\ call = [op |-> "none"]

SizerNext ==
    \/ calculate_and_set_optimal_amount_in
    \/ calculate_and_set_amount_in
    \/ calculate_and_set_profit
    \/ update_reserves

SpecSizer == SizerInit /\ [][SizerNext]_vars

\* reserves of the simulation model: an empty-ish pool and a deep one
ProfitReserves == {1, MaxReserve}

\* Simulation: a Route of 2..MaxPools pools with any of these reserves and
\* fees, constructed with any amount_in.
ProfitInit ==
    /\ WatcherIdle({})
    /\ LedgerIdle
    /\ pools \in Routes(2..MaxPools, ProfitReserves, FeeConfigs)
    /\ profit = 0
    /\ optimal_amount_in = 0
    /\ amount_in \in -1..MaxAmount
    /\ call = [op |-> "none"]

ProfitNext == calculate_and_set_profit

SpecProfit == ProfitInit /\ [][ProfitNext]_vars

\* Optimal sizing of a two-pool cycle with reserves 1..MaxCycleReserve.
OptimalInit ==
    /\ WatcherIdle({})
    /\ LedgerIdle
    /\ pools \in Routes({2}, 1..MaxCycleReserve,
                      {NoFees, <<Frac(1, 4), FInt(0), FALSE>>})
    /\ profit = 0
    /\ optimal_amount_in = 0
    /\ amount_in = 0
    /\ call = [op |-> "none"]

OptimalNext == calculate_and_set_optimal_amount_in

SpecOptimal == OptimalInit /\ [][OptimalNext]_vars

\* the caller feeds the optimal amount just computed back into the route:
\* route.amount_in = route.optimal_amount_in
set_amount_in ==
    /\ call.op = "calculate_and_set_optimal_amount_in"
    /\ amount_in' = optimal_amount_in
    /\ call' = [op |-> "set_amount_in"]
    /\ UNCHANGED <<pools, profit, optimal_amount_in>>
    /\ UNCHANGED <<watcher_vars, ledger_vars>>

\* Feedback: the optimal amount of a two-pool zero-fee cycle is computed,
\* fed back as amount_in, and the route is simulated.
FeedbackInit ==
    /\ WatcherIdle({})
    /\ LedgerIdle
    /\ pools \in Routes({2}, 1..MaxCycleReserve, {NoFees})
    /\ profit = 0
    /\ optimal_amount_in = 0
    /\ amount_in = 0
    /\ call = [op |-> "none"]

FeedbackNext ==
    \/ calculate_and_set_optimal_amount_in
    \/ set_amount_in
    \/ calculate_and_set_profit

SpecFeedback == FeedbackInit /\ [][FeedbackNext]_vars

(***************************************************************************)
(* CosmWasmQuerier.update_account_balance, cosmwasm.py:120-136             *)
(***************************************************************************)
\* exceptions client.query_bank_balance can raise: a lost connection
\* (requests.exceptions.ConnectionError, the one line 134 names), and two
\* that line 134 does not name
LedgerExceptions == {"ConnectionError", "ReadTimeout", "RuntimeError"}

\* what client.query_bank_balance does: it returns the balance or raises
QueryOutcomes ==
    [kind : {"balance"}, value : 0..MaxBalance]
    \cup [kind : {"raised"}, exception : LedgerExceptions]

ConnectionLost(outcome) ==
    outcome.kind = "raised" /\ outcome.exception = "ConnectionError"

\* mutant: the except clause returns the flag of the try clause
UpdateAccountBalance_FlagFalse(passed, outcome, made) ==
    IF outcome.kind = "balance"
    THEN [returned |-> <<outcome.value, FALSE>>, raised |-> "none",
          local_client |-> passed, made |-> made]
    ELSE IF outcome.exception = "ConnectionError"
    THEN [returned |-> <<0, FALSE>>, raised |-> "none",
          local_client |-> made + 1, made |-> made + 1]
    ELSE [returned |-> <<>>, raised |-> outcome.exception,
          local_client |-> passed, made |-> made]

\* lines 128-136: the body of the method, called with the client `passed`
\* when `made` clients exist. local_client is what the parameter `client`
\* is bound to when the method ends: line 135 binds it to a new
\* LedgerClient.
UpdateAccountBalance(passed, outcome, made) ==
    IF outcome.kind = "balance"
    THEN [returned |-> <<outcome.value, FALSE>>, raised |-> "none",
          local_client |-> passed, made |-> made]
    ELSE IF outcome.exception = "ConnectionError"
    THEN [returned |-> <<0, TRUE>>, raised |-> "none",
          local_client |-> made + 1, made |-> made + 1]
    ELSE [returned |-> <<>>, raised |-> outcome.exception,
          local_client |-> passed, made |-> made]

\* the caller passes the client it holds; whatever the method binds its
\* parameter to, the caller's reference is the one it passed
update_account_balance ==
    \E denom \in Denoms, outcome \in QueryOutcomes :
        LET done == UpdateAccountBalance(client, outcome, clients_made) IN
        /\ done.made <= MaxClients
        /\ balance_call' = [op           |-> "update_account_balance",
                            client       |-> client,
                            denom        |-> denom,
                            outcome      |-> outcome,
                            returned     |-> done.returned,
                            raised       |-> done.raised,
                            local_client |-> done.local_client]
        /\ clients_made' = done.made
        /\ UNCHANGED client
        /\ UNCHANGED <<watcher_vars, route_vars>>

\* the caller reconnects after a reset signal: it constructs a LedgerClient
\* of its own and holds that one from then on
reset_client ==
    /\ balance_call.op = "update_account_balance"
    /\ balance_call.raised = "none"
    /\ balance_call.returned[2]
    /\ clients_made < MaxClients
    /\ client' = clients_made + 1
    /\ clients_made' = clients_made + 1
    /\ balance_call' = [op |-> "reset_client"]
    /\ UNCHANGED <<watcher_vars, route_vars>>

LedgerInit ==
    /\ WatcherIdle({})
    /\ LedgerIdle
    /\ DefaultRoute

LedgerNext ==
    \/ update_account_balance
    \/ reset_client

SpecLedger == LedgerInit /\ [][LedgerNext]_vars

(***************************************************************************)
(* Properties of the mempool watcher.                                      *)
(***************************************************************************)
\* the transaction the for loop is about to observe
Observing == pc = "for" /\ tx_index <= Len(mempool.txs)

CurrentTx == mempool.txs[tx_index]

\* C1: whenever query_node_for_new_mempool_txs returns, the batch is not
\* empty, holds no identifier twice, lists the identifiers in the order of
\* the pending list of the final attempt, and all of them are in the cache;
\* and an identifier is appended to the batch only if it was not in the
\* cache just before, and is put into the cache by the same step.
C1_ReturnedBatch ==
    /\ [](pc = "returned" =>
            /\ new_txs # <<>>
            /\ NoDuplicates(new_txs)
            /\ new_txs = FirstOccurrences(mempool.txs, Range(new_txs))
            /\ Range(new_txs) \subseteq already_seen)
    /\ [][new_txs' # new_txs /\ new_txs' # <<>> =>
            /\ Observing
            /\ new_txs' = Append(new_txs, CurrentTx)
            /\ CurrentTx \notin already_seen
            /\ CurrentTx \in already_seen']_vars

\* a batch returned from a pending list that also held an identifier which
\* was not new
C1_Witness ==
    /\ pc = "returned"
    /\ Len(new_txs) = 1
    /\ Len(mempool.txs) = 2
    /\ mempool.txs[1] # mempool.txs[2]

\* transport failures the claim names: timeout, connection refused,
\* protocol error
ClaimedTransportFailures ==
    {"ConnectTimeout", "ReadTimeout", "ConnectError", "RemoteProtocolError"}

\* bodies the claim calls malformed: not parsable, or parsed but without
\* the result / pending-transaction structure
MalformedBodies ==
    {"not_json", "no_result", "result_null", "result_no_txs", "result_scalar"}

\* C2: an attempt whose transport call fails or whose response is malformed
\* does not end the watcher with an error: it emits nothing and the loop
\* goes on to the next attempt.
C2_FailedAttemptRetries ==
    [][( \/ /\ pc = "query"
            /\ response'.kind \in {"None", "raised"}
            /\ response'.cause \in ClaimedTransportFailures
         \/ /\ pc = "parse"
            /\ response.body.kind \in MalformedBodies )
        => /\ pc' = "sleep"
           /\ error' = "none"
           /\ new_txs' = new_txs
           /\ already_seen' = already_seen]_vars

\* C3: an identifier that is in the cache when it is observed is not
\* appended to the batch, and observing it leaves the cache as it was.
C3_CachedNotReemitted ==
    [][Observing /\ CurrentTx \in already_seen =>
          /\ new_txs' = new_txs
          /\ Cardinality(already_seen') = Cardinality(already_seen)
          /\ already_seen' = already_seen]_vars

\* the second element of a pending list was observed while it was in the
\* cache, and it has not been emitted by this attempt
C3_Witness ==
    /\ pc = "for"
    /\ tx_index = 3
    /\ mempool.txs[2] \in already_seen
    /\ mempool.txs[2] \notin Range(new_txs)
    /\ Len(new_txs) = 1

\* C4 as claimed: with 200 identifiers cached, observing a 201st clears the
\* cache before the insertion, leaving only the newest identifier.
C4_ClearedAt201st ==
    [][Observing /\ Cardinality(already_seen) = CacheLimit
         /\ CurrentTx \notin already_seen
       => already_seen' = {CurrentTx}]_vars

\* C4 amended: the cache is cleared only when an attempt starts, and only if
\* it then holds more than 200 identifiers; after such a clear the cache
\* holds exactly the identifiers inserted since, so the first insertion
\* leaves it with size 1. With exactly 200 cached nothing is cleared and a
\* 201st distinct identifier makes it 201.
C4_ClearedAboveLimit ==
    /\ [](cleared /\ pc \in {"for", "returned"} =>
            already_seen = Range(new_txs))
    /\ [][/\ pc = "sleep" /\ Cardinality(already_seen) > CacheLimit
             => already_seen' = {}
          /\ pc = "sleep" /\ Cardinality(already_seen) <= CacheLimit
             => already_seen' = already_seen
          /\ Observing /\ CurrentTx \notin already_seen
             => /\ already_seen' = already_seen \cup {CurrentTx}
                /\ Cardinality(already_seen') = Cardinality(already_seen) + 1
         ]_vars

\* the cache was cleared at the start of the attempt and now holds only the
\* identifier that was inserted after that
C4_Witness ==
    /\ cleared
    /\ pc = "for"
    /\ tx_index = 2
    /\ already_seen = {mempool.txs[1]}

\* C5: when an attempt starts to insert identifiers the cache holds at most
\* 200 of them, and in every state its size is at most 200 plus the number
\* of distinct identifiers of one pending list.
C5_CacheBounded ==
    /\ pc \in {"query", "parse"} => Cardinality(already_seen) <= CacheLimit
    /\ pc = "for" /\ tx_index = 1 => Cardinality(already_seen) <= CacheLimit
    /\ pc \in {"for", "returned"} =>
          Cardinality(already_seen)
              <= CacheLimit + Cardinality(Range(mempool.txs))
    /\ Cardinality(already_seen) <= CacheLimit + MaxTxs
    /\ already_seen \subseteq TxIds

\* the bound is attained: a full cache took two more identifiers
C5_Witness ==
    /\ pc = "returned"
    /\ Cardinality(already_seen) = CacheLimit + 2

(***************************************************************************)
(* Properties of the route orderer.                                        *)
(***************************************************************************)
Tokens(p) == {p.token1_denom, p.token2_denom}

OtherDenom(p, d) == IF p.token1_denom = d THEN p.token2_denom ELSE p.token1_denom

\* the denom pool i takes in when the route is walked from arb_denom
RECURSIVE DenomIn(_, _, _)
DenomIn(ps, i, arb_denom) ==
    IF i = 1 THEN arb_denom
    ELSE OtherDenom(ps[i - 1], DenomIn(ps, i - 1, arb_denom))

DenomOut(ps, i, arb_denom) == OtherDenom(ps[i], DenomIn(ps, i, arb_denom))

\* pool 0 takes arb_denom, every pool takes what the pool before it gives,
\* and the last pool gives arb_denom
Chained(ps, arb_denom) ==
    /\ \A i \in 1..Len(ps) :
          /\ ps[i].token1_denom # ps[i].token2_denom
          /\ DenomIn(ps, i, arb_denom) \in Tokens(ps[i])
    /\ DenomOut(ps, Len(ps), arb_denom) = arb_denom

\* the pools form a cycle through arb_denom
CycleThrough(ps, arb_denom) ==
    /\ arb_denom \in Tokens(ps[1])
    /\ arb_denom \in Tokens(ps[Len(ps)])
    /\ \A i \in 1..(Len(ps) - 1) :
          Cardinality(Tokens(ps[i]) \cap Tokens(ps[i + 1])) = 1
    /\ Chained(ps, arb_denom)

\* 1-based position in ps of the pool with this address
PositionOf(ps, address) == CHOOSE i \in 1..Len(ps) : ps[i].contract_address = address

\* C6: for a 3-pool cycle through arb_denom and a swap on a member pool whose
\* output_denom is one of that pool's denoms, order_pools leaves the route
\* chained from arb_denom back to arb_denom with the swapped pool taking
\* swap.output_denom as its input.
C6_OrientedAgainstSwap ==
    [][/\ call'.op = "order_pools"
       /\ call'.raised = "none"
       /\ Len(pools) = 3
       /\ CycleThrough(pools, call'.arb_denom)
       /\ call'.swap.output_denom
             \in Tokens(pools[PositionOf(pools, call'.swap.contract_address)])
       => /\ Chained(pools', call'.arb_denom)
          /\ DenomIn(pools', PositionOf(pools', call'.swap.contract_address),
                     call'.arb_denom) = call'.swap.output_denom]_vars

\* a cycle ordered against a swap on its last pool that gives arb_denom
C6_Witness ==
    /\ call.op = "order_pools"
    /\ call.raised = "none"
    /\ CycleThrough(pools, call.arb_denom)
    /\ call.swap.output_denom = call.arb_denom
    /\ PositionOf(pools, call.swap.contract_address) = 1
    /\ pools[1].token2_denom = call.arb_denom

(***************************************************************************)
(* Properties of the sizing methods.                                       *)
(***************************************************************************)
Min(a, b) == IF a <= b THEN a ELSE b

Sized == call.op = "calculate_and_set_amount_in"

\* account_balance - gas_fee of the last call, which is the sizer's
Spendable == call.account_balance - call.gas_fee

\* C7: calculate_and_set_amount_in(account_balance, gas_fee) leaves
\* amount_in as it was when optimal_amount_in <= 0 (0 on a freshly
\* constructed Route) and otherwise sets it to
\* min(optimal_amount_in, account_balance - gas_fee); it changes nothing
\* else. The spec's examples: 1000/500/100 gives 400, 50/1000/10 gives 50,
\* optimal -5 on a fresh Route gives 0.
C7_ClampingPolicy ==
    /\ [](/\ AmountIn(1000, 0, 500, 100) = 400
          /\ AmountIn(50, 0, 1000, 10) = 50
          /\ AmountIn(-5, 0, 500, 100) = 0)
    /\ [][call'.op = "calculate_and_set_amount_in" =>
            /\ amount_in' =
                  IF optimal_amount_in <= 0 THEN amount_in
                  ELSE Min(optimal_amount_in,
                           call'.account_balance - call'.gas_fee)
            /\ UNCHANGED <<pools, profit, optimal_amount_in>>]_vars

\* the sizer has clamped a positive optimal amount to the spendable balance
C7_Witness ==
    /\ Sized
    /\ optimal_amount_in = 2
    /\ Spendable = 1
    /\ amount_in = 1

\* C8 as the spec states it: in every reachable state amount_in is
\* <= optimal_amount_in when that is positive, and amount_in is <= the
\* spendable balance last supplied to the sizer (read where the sizer is
\* the last call made).
C8_AlwaysBounded ==
    /\ optimal_amount_in > 0 => amount_in <= optimal_amount_in
    /\ Sized => amount_in <= Spendable

\* C8 as the code has it: when calculate_and_set_amount_in has just run on
\* a positive optimal_amount_in, amount_in is <= optimal_amount_in and
\* <= account_balance - gas_fee, and it is one of the two.
C8_BoundedWhenSized ==
    Sized /\ optimal_amount_in > 0 =>
        /\ amount_in <= optimal_amount_in
        /\ amount_in <= Spendable
        /\ amount_in \in {optimal_amount_in, Spendable}

\* the sizer has run on a positive optimal amount that the balance covers
C8_Witness ==
    /\ Sized
    /\ optimal_amount_in = 1
    /\ Spendable = 2
    /\ amount_in = 1

Simulated == call.op = "calculate_and_set_profit" /\ call.raised = "none"

SwapOf(p) ==
    calculate_swap(p.input_reserves, p.output_reserves, p.amount_in,
                   p.lp_fee, p.protocol_fee, p.fee_from_input)

\* what calculate_and_set_profit must not touch in pool p
Persistent(p) ==
    <<p.contract_address, p.token1_denom, p.token2_denom, p.input_reserves,
      p.output_reserves, p.lp_fee, p.protocol_fee, p.fee_from_input>>

\* C9: after calculate_and_set_profit has returned on a route of N >= 2
\* pools, pools[0].amount_in is route.amount_in, every later pool's
\* amount_in is the amount_out of the pool before it, every pool's
\* amount_out is the swap result for its own amount_in, reserves and fees,
\* and the returned value and route.profit are
\* pools[N-1].amount_out - pools[0].amount_in; the call changes no
\* reserves, no fees, not the order of the pools, not route.amount_in and
\* not route.optimal_amount_in.
C9_SimulatedChain ==
    /\ [](Simulated /\ Len(pools) >= 2 =>
            /\ pools[1].amount_in = amount_in
            /\ \A i \in 2..Len(pools) :
                  pools[i].amount_in = pools[i - 1].amount_out
            /\ \A i \in 1..Len(pools) :
                  /\ SwapOf(pools[i]) # "ZeroDivisionError"
                  /\ pools[i].amount_out = SwapOf(pools[i])[1]
            /\ profit = pools[Len(pools)].amount_out - pools[1].amount_in
            /\ call.returned = profit)
    /\ [][call'.op = "calculate_and_set_profit" =>
            /\ Len(pools') = Len(pools)
            /\ \A i \in 1..Len(pools) :
                  Persistent(pools'[i]) = Persistent(pools[i])
            /\ UNCHANGED <<amount_in, optimal_amount_in>>]_vars

\* a three-pool route has been simulated on an amount_in of 2, and the
\* amounts passed along the chain differ from the route's
C9_Witness ==
    /\ Simulated
    /\ Len(pools) = 3
    /\ amount_in = 2
    /\ pools[2].amount_in # amount_in
    /\ pools[3].amount_in > 0
    /\ profit # 0

ZeroFees(p) == p.lp_fee = FInt(0) /\ p.protocol_fee = FInt(0)

\* no price discrepancy around the two-pool cycle
Balanced ==
    pools[1].output_reserves * pools[2].output_reserves
        = pools[1].input_reserves * pools[2].input_reserves

Optimised == call.op = "calculate_and_set_optimal_amount_in"

ProfitableImbalance ==
    pools[1].output_reserves * pools[2].output_reserves
        > pools[1].input_reserves * pools[2].input_reserves

\* the route is simulated on the optimal amount that was just fed back
FedBack == call.op = "set_amount_in" /\ call'.op = "calculate_and_set_profit"

ExactHop(p, x) == (p.output_reserves * x) % (p.input_reserves + x) = 0

Ordered == call.op = "order_pools"

\* the call that led to this state reversed the route
Reversed == Ordered /\ call.before # pools

\* C12: two successive order_pools calls that each reverse the route leave
\* route.pools equal to the sequence before the first of them.
C12_DoubleReversal ==
    [][/\ Reversed
       /\ call'.op = "order_pools"
       /\ pools' # pools
       => pools' = call.before]_vars

\* the route was reversed by one call and reversed back by the next
C12_Witness ==
    /\ Reversed
    /\ call.previous.reversed
    /\ call.raised = "none"
    /\ Len(pools) = 3
    /\ pools = reverse(call.before)

(***************************************************************************)
(* Properties of update_account_balance.                                   *)
(***************************************************************************)
BalanceQueried == balance_call.op = "update_account_balance"

\* C13: update_account_balance returns (queried balance, False) when the
\* balance query succeeds and (0, True) when it fails with a lost
\* connection; the reconnect flag is True if and only if the connection was
\* lost, and a lost connection never leaves the method as an error.
C13_BalanceOrReset ==
    BalanceQueried =>
        /\ balance_call.outcome.kind = "balance" =>
              /\ balance_call.raised = "none"
              /\ balance_call.returned = <<balance_call.outcome.value, FALSE>>
        /\ ConnectionLost(balance_call.outcome) =>
              /\ balance_call.raised = "none"
              /\ balance_call.returned = <<0, TRUE>>
        /\ balance_call.raised = "none" =>
              (balance_call.returned[2] <=> ConnectionLost(balance_call.outcome))

\* a query on the ujuno balance lost the connection and the method
\* returned (0, True)
C13_Witness ==
    /\ BalanceQueried
    /\ balance_call.denom = ArbDenom
    /\ ConnectionLost(balance_call.outcome)
    /\ balance_call.returned = <<0, TRUE>>

(***************************************************************************)
(* Liveness of the mempool watcher.                                        *)
(***************************************************************************)
\* the transport answers with a well-formed pending list that holds an
\* identifier the cache does not
GoodAnswer ==
    /\ response.kind = "response"
    /\ response.body.kind = "result_txs"
    /\ \E i \in 1..Len(response.body.txs) :
          response.body.txs[i] \notin already_seen

\* from some attempt on every answer of the transport is a good one
EventuallyGoodAnswers == <>[][pc = "query" => GoodAnswer']_vars

Polling == pc \in {"sleep", "query", "parse", "for"}

\* C14: the watcher blocks until a new transaction is found and then
\* returns. If from some attempt on the transport answers with a
\* well-formed pending list holding an uncached identifier, a call of the
\* method eventually returns; and an attempt that fails, is empty or holds
\* only cached identifiers is followed by another attempt, without a limit:
\* the method goes on polling and neither returns nor stops.
C14_BlocksUntilNew ==
    /\ EventuallyGoodAnswers => [](Polling => <>(pc = "returned"))
    /\ [][Polling /\ pc' \notin {"parse", "for"} =>
            \/ pc' = "returned" /\ new_txs # <<>>
            \/ pc' \in {"sleep", "query"}]_vars

\* The part of C14 that holds: a call that no exception leaves returns once
\* the transport answers well from some attempt on.
C14_ReturnsUnlessRaised ==
    EventuallyGoodAnswers /\ [](pc # "crashed")
        => [](Polling => <>(pc = "returned"))

(***************************************************************************)
(* The reversal rule of the route orderer.                                 *)
(***************************************************************************)
Member(ps, address) == \E i \in 1..Len(ps) : ps[i].contract_address = address

\* the first pool's denom that is not arb_denom: token_b if token_a is
\* arb_denom, else token_a
Outward(p, arb_denom) ==
    IF p.token1_denom = arb_denom THEN p.token2_denom ELSE p.token1_denom

\* the rule of the spec for a swap on the pool at 0-based position at
MustReverse(ps, at, output_denom, arb_denom) ==
    \/ at = 0 /\ output_denom # arb_denom
    \/ at = 1 /\ output_denom # Outward(ps[1], arb_denom)
    \/ at = Len(ps) - 1 /\ output_denom = arb_denom

\* C15: on a 3-pool route order_pools leaves route.pools exactly as it was
\* or exactly reversed, and it reverses if and only if the targeted pool is
\* at position 0 and swap.output_denom != arb_denom, or at position 1 and
\* swap.output_denom is not the first pool's outward denom, or at the last
\* position and swap.output_denom == arb_denom.
C15_ReversalRule ==
    [][call'.op = "order_pools" /\ Len(pools) = 3 =>
          /\ pools' \in {pools, reverse(pools)}
          /\ pools' = reverse(pools) <=>
                /\ Member(pools, call'.swap.contract_address)
                /\ MustReverse(pools,
                               PositionOf(pools, call'.swap.contract_address) - 1,
                               call'.swap.output_denom, call'.arb_denom)]_vars

\* a swap on the middle pool whose output_denom is not the first pool's
\* outward denom has reversed the route
C15_Witness ==
    /\ Reversed
    /\ Len(pools) = 3
    /\ PositionOf(call.before, call.swap.contract_address) = 2
    /\ call.swap.output_denom # Outward(call.before[1], call.arb_denom)
    /\ pools = reverse(call.before)

(***************************************************************************)
(* The ledger client after a lost connection.                              *)
(***************************************************************************)
\* C16: after a balance query has failed with a lost connection the ledger
\* client is reconstructed: the client the caller holds, which its next
\* balance query uses, is the newly constructed one and not the one whose
\* connection was lost.
C16_ClientReconstructed ==
    BalanceQueried /\ ConnectionLost(balance_call.outcome) =>
        /\ client = balance_call.local_client
        /\ client # balance_call.client

(***************************************************************************)
(* Repetition and frame of the route orderer.                              *)
(***************************************************************************)
\* the call about to be made repeats the call that led to this state
SameTrigger ==
    /\ Ordered
    /\ call.raised = "none"
    /\ call'.op = "order_pools"
    /\ call'.swap = call.swap
    /\ call'.arb_denom = call.arb_denom

C18_OnlyTheOrder ==
    [][call'.op = "order_pools" =>
          /\ Len(pools') = Len(pools)
          /\ \A i \in 1..Len(pools) : \E j \in 1..Len(pools) :
                /\ pools'[j].contract_address = pools[i].contract_address
                /\ pools'[j] = pools[i]
          /\ UNCHANGED <<profit, optimal_amount_in, amount_in>>]_vars

\* a reversed route whose pools still hold their unequal reserves
C18_Witness ==
    /\ Reversed
    /\ call.raised = "none"
    /\ Range(pools) = Range(call.before)
    /\ \A i \in 1..Len(pools) :
          pools[i].input_reserves < pools[i].output_reserves

====
